---- MODULE Spec2Model ----
(***************************************************************************)
(* QExPy: the configuration store (qexpy/settings/settings.py) and the     *)
(* value model with its factory (qexpy/data/data.py).                      *)
(*                                                                         *)
(* Python values are records of one shape, PyVal, so that any two of them  *)
(* can be compared: type is the Python class, s the payload of an enum     *)
(* member (its .value) or the kind of a special float, n the magnitude of  *)
(* a number, chars the characters of a str, items the elements of a list.  *)
(* Floats are modelled on the integer-valued floats plus inf, -inf, nan.   *)
(***************************************************************************)
EXTENDS Integers, Sequences, FiniteSets, TLC

VARIABLES config, obj, last

vars == <<config, obj, last>>

----------------------------------------------------------------------------
(* Bounds of the model *)

\* largest magnitude of a finite number handed to the program
MaxNum == 1
\* largest integer handed to the significant-figure setters
MaxSigFigs == 3
\* longest string handed to the significant-figure setters
MaxStrLen == 2
\* longest sample array handed to Measurement
MaxSamples == 2

----------------------------------------------------------------------------
(* Python values *)

PyVal(t, str, num, cs, its) ==
    [type |-> t, s |-> str, n |-> num, chars |-> cs, items |-> its]

None == PyVal("NoneType", "", 0, << >>, << >>)
PyInt(k) == PyVal("int", "", k, << >>, << >>)
PyFloat(k) == PyVal("float", "", k, << >>, << >>)
PyInf == PyVal("float", "inf", 0, << >>, << >>)
PyNegInf == PyVal("float", "-inf", 0, << >>, << >>)
PyNaN == PyVal("float", "nan", 0, << >>, << >>)
PyStr(cs) == PyVal("str", "", 0, cs, << >>)
PyList(its) == PyVal("list", "", 0, << >>, its)
EnumMember(cls, v) == PyVal(cls, v, 0, << >>, << >>)

\* isinstance(x, cls) for the classes of this model (none subclasses another)
isinstance(x, types) == x.type \in types

----------------------------------------------------------------------------
(* settings.py: the enums and the configuration dictionary *)

ErrorMethod ==
    { EnumMember("ErrorMethod", v) : v \in {"derivative", "min_max", "monte_carlo"} }
PrintStyle ==
    { EnumMember("PrintStyle", v) : v \in {"default", "latex", "scientific"} }
SigFigMode ==
    { EnumMember("SigFigMode", v) : v \in {"automatic", "value", "error"} }

DERIVATIVE == EnumMember("ErrorMethod", "derivative")
MIN_MAX == EnumMember("ErrorMethod", "min_max")
MONTE_CARLO == EnumMember("ErrorMethod", "monte_carlo")
DEFAULT == EnumMember("PrintStyle", "default")
LATEX == EnumMember("PrintStyle", "latex")
SCIENTIFIC == EnumMember("PrintStyle", "scientific")
AUTOMATIC == EnumMember("SigFigMode", "automatic")
VALUE == EnumMember("SigFigMode", "value")
ERROR == EnumMember("SigFigMode", "error")

\* qexpy/settings/literals.py: the keys of the configuration dictionary
ERROR_METHOD == "error_method"
PRINT_STYLE == "print_style"
SIG_FIGS == "significant_figures"
SIG_FIG_MODE == "mode"
SIG_FIG_VALUE == "value"

DefaultConfig ==
    [error_method |-> DERIVATIVE,
     print_style |-> DEFAULT,
     significant_figures |-> [mode |-> AUTOMATIC, value |-> 1]]

get_error_method == config[ERROR_METHOD]
get_print_style == config[PRINT_STYLE]
get_sig_fig_mode == config[SIG_FIGS][SIG_FIG_MODE]
get_sig_fig_value == config[SIG_FIGS][SIG_FIG_VALUE]

----------------------------------------------------------------------------
(* The call that has just returned: its name, positional and keyword       *)
(* arguments, what it returned, the exception it raised ("" for none),     *)
(* what it printed ("", "error" or "warning"), for _print_value the        *)
(* value-error pair it selected, and the configuration it was called in.   *)

NoPair == <<None, None>>
NoKw == [k \in {} |-> None]

Call(op, args, kw, ret, exc, printed, value) ==
    [op |-> op, args |-> args, kw |-> kw, ret |-> ret, exc |-> exc,
     printed |-> printed, value |-> value, pre |-> config]

Returned(op, args, ret, printed) == Call(op, args, NoKw, ret, "", printed, NoPair)
Raised(op, args, exc, printed) == Call(op, args, NoKw, None, exc, printed, NoPair)

----------------------------------------------------------------------------
(* int(x), as the significant-figure setters use it *)

Digits == {"0", "1", "2", "3", "4", "5", "6", "7", "8", "9"}

DigitVal(c) ==
    CASE c = "0" -> 0 [] c = "1" -> 1 [] c = "2" -> 2 [] c = "3" -> 3
      [] c = "4" -> 4 [] c = "5" -> 5 [] c = "6" -> 6 [] c = "7" -> 7
      [] c = "8" -> 8 [] c = "9" -> 9

RECURSIVE Strip(_)
Strip(cs) ==
    IF cs = << >> THEN cs
    ELSE IF Head(cs) = " " THEN Strip(Tail(cs))
    ELSE IF cs[Len(cs)] = " " THEN Strip(SubSeq(cs, 1, Len(cs) - 1))
    ELSE cs

RECURSIVE DigitsVal(_, _)
DigitsVal(cs, acc) ==
    IF cs = << >> THEN acc
    ELSE DigitsVal(Tail(cs), 10 * acc + DigitVal(Head(cs)))

\* the int literal grammar: optional blanks, optional sign, one or more digits
ParseInt(cs) ==
    LET t == Strip(cs)
        signed == t # << >> /\ Head(t) \in {"-", "+"}
        body == IF signed THEN Tail(t) ELSE t
    IN IF body # << >> /\ \A i \in 1..Len(body) : body[i] \in Digits
       THEN [exc |-> "",
             n |-> IF signed /\ Head(t) = "-" THEN 0 - DigitsVal(body, 0)
                   ELSE DigitsVal(body, 0)]
       ELSE [exc |-> "ValueError", n |-> 0]

int(x) ==
    CASE x.type = "int" -> [exc |-> "", n |-> x.n]
      [] x.type = "float" ->
            IF x.s = "" THEN [exc |-> "", n |-> x.n]
            ELSE IF x.s = "nan" THEN [exc |-> "ValueError", n |-> 0]
            ELSE [exc |-> "OverflowError", n |-> 0]
      [] x.type = "str" -> ParseInt(x.chars)
      [] OTHER -> [exc |-> "TypeError", n |-> 0]

----------------------------------------------------------------------------
(* settings.py: the operations of the configuration store *)

\* a reset that forgets the significant-figure value
reset_keeps_sig_fig_value ==
    /\ config' = [config EXCEPT ![ERROR_METHOD] = DERIVATIVE,
                                ![PRINT_STYLE] = DEFAULT,
                                ![SIG_FIGS][SIG_FIG_MODE] = AUTOMATIC]
    /\ last' = Returned("reset_default_configuration", << >>, None, "")
    /\ UNCHANGED obj

reset_default_configuration ==
    /\ config' = [config EXCEPT ![ERROR_METHOD] = DERIVATIVE,
                                ![PRINT_STYLE] = DEFAULT,
                                ![SIG_FIGS][SIG_FIG_MODE] = AUTOMATIC,
                                ![SIG_FIGS][SIG_FIG_VALUE] = 1]
    /\ last' = Returned("reset_default_configuration", << >>, None, "")
    /\ UNCHANGED obj

\* a check for any enum member in place of the check for ErrorMethod
set_error_method_any_enum(new_method) ==
    /\ IF ~ isinstance(new_method, {"ErrorMethod", "PrintStyle", "SigFigMode"})
       THEN /\ UNCHANGED config
            /\ last' = Returned("set_error_method", <<new_method>>, None, "error")
       ELSE /\ config' = [config EXCEPT ![ERROR_METHOD] = new_method]
            /\ last' = Returned("set_error_method", <<new_method>>, None, "")
    /\ UNCHANGED obj

set_error_method(new_method) ==
    /\ IF ~ isinstance(new_method, {"ErrorMethod"})
       THEN /\ UNCHANGED config
            /\ last' = Returned("set_error_method", <<new_method>>, None, "error")
       ELSE /\ config' = [config EXCEPT ![ERROR_METHOD] = new_method]
            /\ last' = Returned("set_error_method", <<new_method>>, None, "")
    /\ UNCHANGED obj

set_print_style(new_style) ==
    /\ IF ~ isinstance(new_style, {"PrintStyle"})
       THEN /\ UNCHANGED config
            /\ last' = Returned("set_print_style", <<new_style>>, None, "error")
       ELSE /\ config' = [config EXCEPT ![ERROR_METHOD] = new_style]
            /\ last' = Returned("set_print_style", <<new_style>>, None, "")
    /\ UNCHANGED obj

\* a setter that stores the value and leaves the mode as it was
set_sig_figs_for_value_keeps_mode(new_sig_figs) ==
    LET sig_figs == int(new_sig_figs)
    IN /\ IF sig_figs.exc = "OverflowError"
          THEN /\ UNCHANGED config
               /\ last' = Raised("set_sig_figs_for_value", <<new_sig_figs>>,
                                 "OverflowError", "")
          ELSE IF sig_figs.exc \in {"ValueError", "TypeError"} \/ sig_figs.n <= 0
          THEN /\ UNCHANGED config
               /\ last' = Returned("set_sig_figs_for_value", <<new_sig_figs>>,
                                   None, "error")
          ELSE /\ config' = [config EXCEPT ![SIG_FIGS][SIG_FIG_VALUE] = sig_figs.n]
               /\ last' = Returned("set_sig_figs_for_value", <<new_sig_figs>>,
                                   None, "")
       /\ UNCHANGED obj

set_sig_figs_for_value(new_sig_figs) ==
    LET sig_figs == int(new_sig_figs)
    IN /\ IF sig_figs.exc = "OverflowError"
          THEN /\ UNCHANGED config
               /\ last' = Raised("set_sig_figs_for_value", <<new_sig_figs>>,
                                 "OverflowError", "")
          ELSE IF sig_figs.exc \in {"ValueError", "TypeError"} \/ sig_figs.n <= 0
          THEN /\ UNCHANGED config
               /\ last' = Returned("set_sig_figs_for_value", <<new_sig_figs>>,
                                   None, "error")
          ELSE /\ config' = [config EXCEPT ![SIG_FIGS][SIG_FIG_VALUE] = sig_figs.n,
                                           ![SIG_FIGS][SIG_FIG_MODE] = VALUE]
               /\ last' = Returned("set_sig_figs_for_value", <<new_sig_figs>>,
                                   None, "")
       /\ UNCHANGED obj

\* the check "sig_figs < 0" in place of "sig_figs <= 0"
set_sig_figs_for_error_zero(new_sig_figs) ==
    LET sig_figs == int(new_sig_figs)
    IN /\ IF sig_figs.exc = "OverflowError"
          THEN /\ UNCHANGED config
               /\ last' = Raised("set_sig_figs_for_error", <<new_sig_figs>>,
                                 "OverflowError", "")
          ELSE IF sig_figs.exc \in {"ValueError", "TypeError"} \/ sig_figs.n < 0
          THEN /\ UNCHANGED config
               /\ last' = Returned("set_sig_figs_for_error", <<new_sig_figs>>,
                                   None, "error")
          ELSE /\ config' = [config EXCEPT ![SIG_FIGS][SIG_FIG_VALUE] = sig_figs.n,
                                           ![SIG_FIGS][SIG_FIG_MODE] = ERROR]
               /\ last' = Returned("set_sig_figs_for_error", <<new_sig_figs>>,
                                   None, "")
       /\ UNCHANGED obj

set_sig_figs_for_error(new_sig_figs) ==
    LET sig_figs == int(new_sig_figs)
    IN /\ IF sig_figs.exc = "OverflowError"
          THEN /\ UNCHANGED config
               /\ last' = Raised("set_sig_figs_for_error", <<new_sig_figs>>,
                                 "OverflowError", "")
          ELSE IF sig_figs.exc \in {"ValueError", "TypeError"} \/ sig_figs.n <= 0
          THEN /\ UNCHANGED config
               /\ last' = Returned("set_sig_figs_for_error", <<new_sig_figs>>,
                                   None, "error")
          ELSE /\ config' = [config EXCEPT ![SIG_FIGS][SIG_FIG_VALUE] = sig_figs.n,
                                           ![SIG_FIGS][SIG_FIG_MODE] = ERROR]
               /\ last' = Returned("set_sig_figs_for_error", <<new_sig_figs>>,
                                   None, "")
       /\ UNCHANGED obj

----------------------------------------------------------------------------
(* data.py: numbers.  qexpy/utils/utils.py names the accepted classes.     *)

NUMBER_TYPES == {"int", "float"}
ARRAY_TYPES == {"list", "ndarray"}

\* qexpy/settings/literals.py: the keys of a value's pairs
RECORDED == "recorded"
MethodKeys == {"derivative", "min_max", "monte_carlo"}

float(x) == [x EXCEPT !.type = "float"]

\* x > 0
Positive(x) == IF x.s = "" THEN x.n > 0 ELSE x.s = "inf"

\* x == float('inf'); a value that is no number compares unequal
IsInf(x) == isinstance(x, NUMBER_TYPES) /\ x.s = "inf"

\* x >= 0, as a statement about a stored uncertainty (false of nan and of
\* anything that is no number)
NonNegative(x) ==
    isinstance(x, NUMBER_TYPES) /\ (IF x.s = "" THEN x.n >= 0 ELSE x.s = "inf")

Sign(x) == IF x.s = "inf" THEN 1 ELSE IF x.s = "-inf" THEN -1
           ELSE IF x.n > 0 THEN 1 ELSE IF x.n < 0 THEN -1 ELSE 0

\* a * b on floats
Mul(a, b) ==
    IF a.s = "nan" \/ b.s = "nan" THEN PyNaN
    ELSE IF a.s = "" /\ b.s = "" THEN PyFloat(a.n * b.n)
    ELSE IF Sign(a) * Sign(b) = 0 THEN PyNaN
    ELSE IF Sign(a) * Sign(b) > 0 THEN PyInf
    ELSE PyNegInf

RECURSIVE Sum(_)
Sum(its) == IF its = << >> THEN 0 ELSE Head(its) + Sum(Tail(its))

\* the largest r with r * r <= k
ISqrt(k) == CHOOSE r \in 0..k : r * r <= k /\ (r + 1) * (r + 1) > k

\* numpy: mean() and std() (divisor N) of an array
Mean(its) == Sum(its) \div Len(its)
Variance(its) ==
    Sum([i \in 1..Len(its) |-> (its[i] - Mean(its)) * (its[i] - Mean(its))])
        \div Len(its)
Std(its) == ISqrt(Variance(its))

\* the arrays whose mean and standard deviation are integer-valued floats
ExactStatistics(its) ==
    /\ Sum(its) % Len(its) = 0
    /\ Sum([i \in 1..Len(its) |-> (its[i] - Mean(its)) * (its[i] - Mean(its))])
           % Len(its) = 0
    /\ Std(its) * Std(its) = Variance(its)

np_array(a) == [a EXCEPT !.type = "ndarray"]

----------------------------------------------------------------------------
(* data.py: objects.  Every object has the same fields; a slot that is not *)
(* set, or that the class does not have, holds Unset.                      *)

Unset == PyVal("<unset>", "", 0, << >>, << >>)
PyBool(b) == PyVal("bool", "", IF b THEN 1 ELSE 0, << >>, << >>)
EmptyDict == [k \in {} |-> NoPair]
EmptyStr == PyStr(<< >>)

NoObject ==
    [cls |-> "NoneType", values |-> EmptyDict, unit |-> Unset, name |-> Unset,
     raw_data |-> Unset, error_method |-> Unset,
     is_error_method_specified |-> Unset]

MeasuredClasses == {"MeasuredValue", "RepeatedlyMeasuredValue"}

\* the slots each class declares, and whether its instances have a __dict__
\* (a class that declares no __slots__ gives them one)
Layout(cls) ==
    CASE cls = "ExperimentalValue" ->
            [slots |-> <<"_values", "_unit", "_name">>, dict |-> FALSE]
      [] cls = "MeasuredValue" ->
            [slots |-> <<"_values", "_unit", "_name">>, dict |-> TRUE]
      [] cls = "RepeatedlyMeasuredValue" ->
            [slots |-> <<"_values", "_unit", "_name", "_raw_data">>, dict |-> TRUE]
      [] cls = "Function" ->
            [slots |-> <<"_values", "_unit", "_name", "_error_method",
                         "_is_error_method_specified">>, dict |-> FALSE]
      [] OTHER -> [slots |-> << >>, dict |-> FALSE]

\* self.__class__ = cls: CPython refuses it when the layouts differ
SetClass(self, cls) ==
    IF Layout(self.cls) = Layout(cls)
    THEN [exc |-> "", obj |-> [self EXCEPT !.cls = cls]]
    ELSE [exc |-> "TypeError", obj |-> self]

\* hasattr(self, "_raw_data"): the class has the slot and it is set
HasRawData(self) ==
    /\ \E i \in 1..Len(Layout(self.cls).slots) : Layout(self.cls).slots[i] = "_raw_data"
    /\ self.raw_data # Unset

ExperimentalValue_init(cls, unit, name) ==
    [NoObject EXCEPT !.cls = cls, !.values = EmptyDict, !.unit = unit, !.name = name]

MeasuredValue_init(cls, value, error, unit, name) ==
    [ExperimentalValue_init(cls, unit, name) EXCEPT
        !.values = [k \in {RECORDED} |-> <<value, error>>]]

\* the statistics stored under a key of their own, beside the pair that
\* super().__init__ recorded
RepeatedlyMeasuredValue_init_own_key(measurement_array, unit, name) ==
    LET self == MeasuredValue_init("RepeatedlyMeasuredValue", unit, name,
                                   EmptyStr, EmptyStr)
        measurements == np_array(measurement_array)
    IN [self EXCEPT
          !.values = [k \in {RECORDED, "repeated"} |->
                        IF k = RECORDED THEN <<unit, name>>
                        ELSE <<PyFloat(Mean(measurements.items)),
                               PyFloat(Std(measurements.items))>>],
          !.raw_data = measurements]

\* super().__init__(unit, name) binds unit to value and name to error, and
\* leaves unit and name at their defaults
RepeatedlyMeasuredValue_init(measurement_array, unit, name) ==
    LET self == MeasuredValue_init("RepeatedlyMeasuredValue", unit, name,
                                   EmptyStr, EmptyStr)
        measurements == np_array(measurement_array)
    IN [self EXCEPT
          !.values = [k \in {RECORDED} |->
                        <<PyFloat(Mean(measurements.items)),
                          PyFloat(Std(measurements.items))>>],
          !.raw_data = measurements]

\* bool(x) in "if error_method:"
Truthy(x) ==
    CASE x.type = "NoneType" -> FALSE
      [] x.type \in {"int", "float", "bool"} -> x.n # 0 \/ x.s # ""
      [] x.type = "str" -> x.chars # << >>
      [] x.type \in ARRAY_TYPES -> x.items # << >>
      [] OTHER -> TRUE

Function_init(propagated_results, unit, name, error_method) ==
    LET self == [ExperimentalValue_init("Function", unit, name) EXCEPT
                    !.values = propagated_results]
    IN IF Truthy(error_method)
       THEN [self EXCEPT !.is_error_method_specified = PyBool(TRUE),
                         !.error_method = error_method]
       ELSE [self EXCEPT !.is_error_method_specified = PyBool(FALSE),
                         !.error_method = get_error_method]

----------------------------------------------------------------------------
(* data.py: the factory.  obj is the object the caller holds: the instance *)
(* a call returned, nothing after a call that returned None, and what it   *)
(* held before after a call that raised.                                   *)

\* a reference to an instance, as a returned value
Ref(self) == PyVal(self.cls, "", 0, << >>, << >>)

\* a two-argument branch that tests only the first argument for a number
MeasurementResult_second_unchecked(args, kwargs) ==
    LET missing == {"unit", "name"} \ DOMAIN kwargs
        key_error == [exc |-> "KeyError", obj |-> NoObject, printed |-> ""]
    IN IF Len(args) = 1 /\ isinstance(args[1], ARRAY_TYPES)
       THEN IF missing # {} THEN key_error
            ELSE [exc |-> "", printed |-> "",
                  obj |-> RepeatedlyMeasuredValue_init(args[1], kwargs["unit"],
                                                       kwargs["name"])]
       ELSE IF Len(args) = 1 /\ isinstance(args[1], NUMBER_TYPES)
       THEN IF missing # {} THEN key_error
            ELSE [exc |-> "", printed |-> "",
                  obj |-> MeasuredValue_init("MeasuredValue", float(args[1]), PyInt(0),
                                             kwargs["unit"], kwargs["name"])]
       ELSE IF Len(args) = 2 /\ isinstance(args[1], NUMBER_TYPES)
       THEN IF missing # {} THEN key_error
            ELSE [exc |-> "", printed |-> "",
                  obj |-> MeasuredValue_init("MeasuredValue", float(args[1]),
                                             float(args[2]),
                                             kwargs["unit"], kwargs["name"])]
       ELSE [exc |-> "", obj |-> NoObject, printed |-> "error"]

\* [exc, obj, printed] of Measurement(*args, **kwargs)
MeasurementResult(args, kwargs) ==
    LET missing == {"unit", "name"} \ DOMAIN kwargs
        key_error == [exc |-> "KeyError", obj |-> NoObject, printed |-> ""]
    IN IF Len(args) = 1 /\ isinstance(args[1], ARRAY_TYPES)
       THEN IF missing # {} THEN key_error
            ELSE [exc |-> "", printed |-> "",
                  obj |-> RepeatedlyMeasuredValue_init(args[1], kwargs["unit"],
                                                       kwargs["name"])]
       ELSE IF Len(args) = 1 /\ isinstance(args[1], NUMBER_TYPES)
       THEN IF missing # {} THEN key_error
            ELSE [exc |-> "", printed |-> "",
                  obj |-> MeasuredValue_init("MeasuredValue", float(args[1]), PyInt(0),
                                             kwargs["unit"], kwargs["name"])]
       ELSE IF Len(args) = 2 /\ isinstance(args[1], NUMBER_TYPES)
                             /\ isinstance(args[2], NUMBER_TYPES)
       THEN IF missing # {} THEN key_error
            ELSE [exc |-> "", printed |-> "",
                  obj |-> MeasuredValue_init("MeasuredValue", float(args[1]),
                                             float(args[2]),
                                             kwargs["unit"], kwargs["name"])]
       ELSE [exc |-> "", obj |-> NoObject, printed |-> "error"]

Measurement(args, kwargs) ==
    LET r == MeasurementResult(args, kwargs)
    IN /\ obj' = IF r.exc = "" THEN r.obj ELSE obj
       /\ last' = Call("Measurement", args, kwargs,
                       IF r.obj = NoObject THEN None ELSE Ref(r.obj),
                       r.exc, r.printed, NoPair)
       /\ UNCHANGED config

----------------------------------------------------------------------------
(* data.py: the properties of a measured value *)

\* lines 124-127, 142-145 and 163-166: after an accepted assignment, a
\* repeated measurement prints the warning and is cast to the base class
CastToBase(op, arg, self) ==
    IF HasRawData(self)
    THEN LET cast == SetClass(self, "MeasuredValue")
         IN /\ obj' = cast.obj
            /\ last' = IF cast.exc = ""
                       THEN Returned(op, <<arg>>, None, "warning")
                       ELSE Raised(op, <<arg>>, cast.exc, "warning")
    ELSE /\ obj' = self
         /\ last' = Returned(op, <<arg>>, None, "")

\* a value setter that stores a fresh pair, with the uncertainty at 0
value_setter_fresh_pair(new_value) ==
    /\ obj.cls \in MeasuredClasses
    /\ IF isinstance(new_value, NUMBER_TYPES)
       THEN CastToBase("value.setter", new_value,
                       [obj EXCEPT !.values[RECORDED] = <<new_value, PyInt(0)>>])
       ELSE /\ UNCHANGED obj
            /\ last' = Returned("value.setter", <<new_value>>, None, "error")
    /\ UNCHANGED config

value_setter(new_value) ==
    /\ obj.cls \in MeasuredClasses
    /\ IF isinstance(new_value, NUMBER_TYPES)
       THEN CastToBase("value.setter", new_value,
                       [obj EXCEPT !.values[RECORDED] =
                                      <<new_value, obj.values[RECORDED][2]>>])
       ELSE /\ UNCHANGED obj
            /\ last' = Returned("value.setter", <<new_value>>, None, "error")
    /\ UNCHANGED config

\* the check "new_error >= 0" in place of "new_error > 0"
error_setter_accepts_zero(new_error) ==
    /\ obj.cls \in MeasuredClasses
    /\ IF /\ isinstance(new_error, NUMBER_TYPES)
          /\ (Positive(new_error) \/ (new_error.s = "" /\ new_error.n = 0))
       THEN CastToBase("error.setter", new_error,
                       [obj EXCEPT !.values[RECORDED] =
                                      <<obj.values[RECORDED][1], new_error>>])
       ELSE /\ UNCHANGED obj
            /\ last' = Returned("error.setter", <<new_error>>, None, "error")
    /\ UNCHANGED config

error_setter(new_error) ==
    /\ obj.cls \in MeasuredClasses
    /\ IF isinstance(new_error, NUMBER_TYPES) /\ Positive(new_error)
       THEN CastToBase("error.setter", new_error,
                       [obj EXCEPT !.values[RECORDED] =
                                      <<obj.values[RECORDED][1], new_error>>])
       ELSE /\ UNCHANGED obj
            /\ last' = Returned("error.setter", <<new_error>>, None, "error")
    /\ UNCHANGED config

relative_error_setter(relative_error) ==
    /\ obj.cls \in MeasuredClasses
    /\ LET value == obj.values[RECORDED]
       IN IF isinstance(relative_error, NUMBER_TYPES) /\ Positive(relative_error)
          THEN LET new_error == Mul(value[1], float(relative_error))
               IN CastToBase("relative_error.setter", relative_error,
                             [obj EXCEPT !.values[RECORDED] = <<value[1], new_error>>])
          ELSE /\ UNCHANGED obj
               /\ last' = Returned("relative_error.setter", <<relative_error>>,
                                   None, "error")
    /\ UNCHANGED config

name_setter(new_name) ==
    /\ obj.cls # "NoneType"
    /\ obj' = IF isinstance(new_name, {"str"}) THEN [obj EXCEPT !.name = new_name]
              ELSE obj
    /\ last' = Returned("name.setter", <<new_name>>, None, "")
    /\ UNCHANGED config

unit_setter(new_unit) ==
    /\ obj.cls # "NoneType"
    /\ last' = Returned("unit.setter", <<new_unit>>, None, "")
    /\ UNCHANGED <<config, obj>>

\* the raw_data property, which only RepeatedlyMeasuredValue defines; it
\* returns a copy
raw_data ==
    /\ obj.cls # "NoneType"
    /\ last' = IF obj.cls = "RepeatedlyMeasuredValue"
               THEN Returned("raw_data", << >>, obj.raw_data, "")
               ELSE Raised("raw_data", << >>, "AttributeError", "")
    /\ UNCHANGED <<config, obj>>

----------------------------------------------------------------------------
(* data.py: display *)

\* qexpy/utils/printing.py: the string the printer makes of a pair, opaque
\* here; the pair it was given is recorded with the call
Printer(value) == PyVal("str", "formatted", 0, << >>, << >>)

InfStr == PyStr(<<"i", "n", "f">>)

\* [exc, ret, value] of MeasuredValue._print_value
MeasuredValue_print_value(self) ==
    LET value == self.values[RECORDED]
    IN IF IsInf(value[1])
       THEN [exc |-> "", ret |-> InfStr, value |-> value]
       ELSE [exc |-> "", ret |-> Printer(value), value |-> value]

\* a lookup that reads the global error method whether or not one is pinned
Function_print_value_global(self) ==
    LET key == get_error_method.s
    IN IF key \notin DOMAIN self.values
       THEN [exc |-> "KeyError", ret |-> None, value |-> NoPair]
       ELSE LET value == self.values[key]
            IN IF IsInf(value[1])
               THEN [exc |-> "", ret |-> InfStr, value |-> value]
               ELSE [exc |-> "", ret |-> Printer(value), value |-> value]

\* [exc, ret, value] of Function._print_value
Function_print_value(self) ==
    LET key == IF Truthy(self.is_error_method_specified)
               THEN self.error_method.s
               ELSE get_error_method.s
    IN IF key \notin DOMAIN self.values
       THEN [exc |-> "KeyError", ret |-> None, value |-> NoPair]
       ELSE LET value == self.values[key]
            IN IF IsInf(value[1])
               THEN [exc |-> "", ret |-> InfStr, value |-> value]
               ELSE [exc |-> "", ret |-> Printer(value), value |-> value]

print_value ==
    /\ obj.cls # "NoneType"
    /\ LET r == IF obj.cls \in MeasuredClasses
                THEN MeasuredValue_print_value(obj)
                ELSE Function_print_value(obj)
       IN last' = Call("_print_value", << >>, NoKw, r.ret, r.exc, "", r.value)
    /\ UNCHANGED <<config, obj>>

\* the Propagation Engine making the result of an operation
Function(propagated_results, error_method) ==
    /\ obj' = Function_init(propagated_results, EmptyStr, EmptyStr, error_method)
    /\ last' = Call("Function", <<error_method>>, NoKw, Ref(obj'), "", "", NoPair)
    /\ UNCHANGED config

----------------------------------------------------------------------------
(* The arguments the operations are called with *)

RECURSIVE SeqsUpTo(_, _)
SeqsUpTo(S, k) ==
    IF k = 0 THEN {<< >>}
    ELSE LET shorter == SeqsUpTo(S, k - 1)
         IN shorter \cup {Append(q, x) : q \in shorter, x \in S}

\* what set_error_method and set_print_style are handed: members of the
\* three enums, None, and strings spelling a member's value
EnumInputs ==
    ErrorMethod \cup PrintStyle \cup SigFigMode
        \cup {None, PyStr(<<"m", "i", "n", "_", "m", "a", "x">>),
              PyStr(<<"l", "a", "t", "e", "x">>)}

SigFigChars == {"-", "0", "2", "x"}

SigFigInputs ==
    {PyInt(k) : k \in (0 - MaxSigFigs)..MaxSigFigs}
        \cup {PyStr(cs) : cs \in SeqsUpTo(SigFigChars, MaxStrLen)}
        \cup {PyStr(<<" ", "2", " ">>), PyStr(<<"+", "2">>), PyStr(<<"2", ".", "0">>)}
        \cup {None, PyFloat(2), PyFloat(-2), PyInf, PyNegInf, PyNaN, PyList(<<2>>)}

\* the significant-figure arguments tried while a value is displayed
FewSigFigInputs == {PyInt(0), PyInt(2), PyStr(<<"2", "0">>), None}

Numbers == {PyInt(k) : k \in (0 - MaxNum)..MaxNum} \cup {PyInf}
NonNumbers == {None, PyStr(<<"1">>)}

SampleArrays ==
    {PyList(its) : its \in {a \in SeqsUpTo((0 - MaxNum)..MaxNum, MaxSamples) :
                               a # << >> /\ ExactStatistics(a)}}

\* the keywords of Measurement: any of unit="m" and name="x"
KwargsInputs ==
    {[k \in D |-> IF k = "unit" THEN PyStr(<<"m">>) ELSE PyStr(<<"x">>)] :
        D \in SUBSET {"unit", "name"}}

\* what the name and unit properties are set to
StrInputs == {PyStr(<<"y">>), None}

ArgsInputs ==
    {<< >>, <<PyInt(1), PyInt(1), PyInt(1)>>}
        \cup {<<a>> : a \in Numbers \cup NonNumbers \cup SampleArrays}
        \cup {<<a, b>> : a \in Numbers, b \in Numbers}
        \cup {<<None, PyInt(1)>>, <<PyInt(1), None>>, <<PyStr(<<"1">>), PyInt(1)>>}

\* the arguments of Measurement tried while a value is displayed
FewArgsInputs ==
    {<<PyInf>>, <<PyInt(1), PyInt(1)>>, <<PyNegInf>>, <<PyList(<<1, 1>>)>>}
FewKwargsInputs == {[k \in {"unit", "name"} |-> EmptyStr]}

\* the pairs the three methods of an operation can produce, and the results
\* of an operation: one pair for each method
PropagatedPairs == {<<PyFloat(1), PyFloat(1)>>, <<PyInf, PyFloat(0)>>}
PropagatedResults == [MethodKeys -> PropagatedPairs]

PinInputs == ErrorMethod \cup {None}

----------------------------------------------------------------------------
(* Specifications *)

Init ==
    /\ config = DefaultConfig
    /\ obj = NoObject
    /\ last = Returned("import", << >>, None, "")

\* the caller makes the one value whose life a behaviour follows
NewMeasurement ==
    /\ obj = NoObject
    /\ \E args \in ArgsInputs, kwargs \in KwargsInputs : Measurement(args, kwargs)

NewMeasurementToDisplay ==
    /\ obj = NoObject
    /\ \E args \in FewArgsInputs, kwargs \in FewKwargsInputs : Measurement(args, kwargs)

NewFunction ==
    /\ obj = NoObject
    /\ \E r \in PropagatedResults, m \in PinInputs : Function(r, m)

\* the configuration store alone
NextConfig ==
    \/ reset_default_configuration
    \/ \E m \in EnumInputs : set_error_method(m)
    \/ \E st \in EnumInputs : set_print_style(st)
    \/ \E k \in SigFigInputs : set_sig_figs_for_value(k)
    \/ \E k \in SigFigInputs : set_sig_figs_for_error(k)

SpecConfig == Init /\ [][NextConfig]_vars

\* the life of one measured value: the factory makes it, the properties
\* read and change it
NextValue ==
    \/ NewMeasurement
    \/ \E x \in Numbers \cup NonNumbers : value_setter(x)
    \/ \E x \in Numbers \cup NonNumbers : error_setter(x)
    \/ \E x \in Numbers \cup NonNumbers : relative_error_setter(x)
    \/ \E x \in StrInputs : name_setter(x)
    \/ \E x \in StrInputs : unit_setter(x)
    \/ raw_data
    \/ print_value

SpecValue == Init /\ [][NextValue]_vars

\* display of one value: the configuration changes before and after the
\* value is made, and the value is printed
NextDisplay ==
    \/ reset_default_configuration
    \/ \E m \in EnumInputs : set_error_method(m)
    \/ \E st \in EnumInputs : set_print_style(st)
    \/ \E k \in FewSigFigInputs : set_sig_figs_for_value(k)
    \/ \E k \in FewSigFigInputs : set_sig_figs_for_error(k)
    \/ NewFunction
    \/ NewMeasurementToDisplay
    \/ print_value

SpecDisplay == Init /\ [][NextDisplay]_vars

----------------------------------------------------------------------------
(* Claims about the configuration store, checked under SpecConfig *)

\* C1: after set_print_style(s) with s one of the three PrintStyle members,
\* get_print_style() returns s.
C1_SetPrintStyleTakesEffect ==
    (last.op = "set_print_style" /\ last.args[1] \in PrintStyle)
        => get_print_style = last.args[1]

\* C2: after any sequence of setter calls, reset_default_configuration()
\* leaves the error method DERIVATIVE, the print style DEFAULT, the
\* significant-figure mode AUTOMATIC and the significant-figure value 1.
C2_ResetRestoresDefaults ==
    last.op = "reset_default_configuration"
        => /\ get_error_method = DERIVATIVE
           /\ get_print_style = DEFAULT
           /\ get_sig_fig_mode = AUTOMATIC
           /\ get_sig_fig_value = 1

\* a reset of a configuration in which the setters had changed the error
\* method, the mode and the value
C2_Witness ==
    /\ last.op = "reset_default_configuration"
    /\ last.pre[ERROR_METHOD] # DERIVATIVE
    /\ last.pre[SIG_FIGS][SIG_FIG_MODE] # AUTOMATIC
    /\ last.pre[SIG_FIGS][SIG_FIG_VALUE] # 1

\* a string that spells an integer: an optional sign, then digits
SpellsInteger(cs) ==
    LET body == IF cs # << >> /\ Head(cs) \in {"+", "-"} THEN Tail(cs) ELSE cs
    IN body # << >> /\ \A i \in 1..Len(body) : body[i] \in Digits

Spelled(cs) ==
    IF Head(cs) = "-" THEN 0 - DigitsVal(Tail(cs), 0)
    ELSE IF Head(cs) = "+" THEN DigitsVal(Tail(cs), 0)
    ELSE DigitsVal(cs, 0)

\* the integer an argument denotes, when it is a number or spells one
Denoted(x) == IF x.type = "str" THEN Spelled(x.chars) ELSE x.n

\* the arguments the claim calls a positive integer or a numeric string of one
DenotesPositiveInteger(x) ==
    \/ x.type \in {"int", "float"} /\ x.s = "" /\ x.n > 0
    \/ x.type = "str" /\ SpellsInteger(x.chars) /\ Spelled(x.chars) > 0

\* the arguments the claim calls zero, negative or non-numeric (a string
\* with a blank or a decimal point in it is left to neither case)
DenotesNoPositiveNumber(x) ==
    \/ x.type \in {"int", "float"} /\ x.s = "" /\ x.n <= 0
    \/ x.type = "float" /\ x.s = "-inf"
    \/ x.type \notin {"int", "float", "str"}
    \/ x.type = "str" /\ SpellsInteger(x.chars) /\ Spelled(x.chars) <= 0
    \/ /\ x.type = "str"
       /\ ~ SpellsInteger(x.chars)
       /\ \A i \in 1..Len(x.chars) : x.chars[i] \notin {" ", "."}

SigFigSetters == {"set_sig_figs_for_value", "set_sig_figs_for_error"}

\* C9: set_sig_figs_for_value(n) and set_sig_figs_for_error(n) change no
\* field of the configuration when n is zero, negative or non-numeric; when
\* n is a positive integer or a numeric string of one, the significant-figure
\* value becomes n and the mode VALUE, respectively ERROR, and the error
\* method and the print style stay as they were.
C9_SigFigSetters ==
    last.op \in SigFigSetters =>
        /\ DenotesNoPositiveNumber(last.args[1]) => config = last.pre
        /\ DenotesPositiveInteger(last.args[1]) =>
              /\ get_sig_fig_value = Denoted(last.args[1])
              /\ get_sig_fig_mode =
                    (IF last.op = "set_sig_figs_for_value" THEN VALUE ELSE ERROR)
              /\ get_error_method = last.pre[ERROR_METHOD]
              /\ get_print_style = last.pre[PRINT_STYLE]

\* set_sig_figs_for_error accepted the string "20" in VALUE mode
C9_Witness ==
    /\ last.op = "set_sig_figs_for_error"
    /\ last.args[1] = PyStr(<<"2", "0">>)
    /\ last.pre[SIG_FIGS][SIG_FIG_MODE] = VALUE
    /\ last.pre[SIG_FIGS][SIG_FIG_VALUE] = 2
    /\ get_sig_fig_value = 20
    /\ get_sig_fig_mode = ERROR

\* set_sig_figs_for_value rejected 0 in a configuration that was not the
\* default
C9_WitnessRejected ==
    /\ last.op = "set_sig_figs_for_value"
    /\ last.args[1] = PyInt(0)
    /\ last.pre[SIG_FIGS][SIG_FIG_MODE] = ERROR
    /\ last.printed = "error"

\* C10: set_error_method(m) with m one of the three ErrorMethod members
\* makes get_error_method() return m and leaves print style,
\* significant-figure mode and value unchanged; with any other argument it
\* leaves the whole configuration unchanged.
C10_SetErrorMethod ==
    last.op = "set_error_method" =>
        IF last.args[1] \in ErrorMethod
        THEN /\ get_error_method = last.args[1]
             /\ get_print_style = last.pre[PRINT_STYLE]
             /\ config[SIG_FIGS] = last.pre[SIG_FIGS]
        ELSE config = last.pre

\* set_error_method changed the method in a configuration whose
\* significant figures were not the default
C10_Witness ==
    /\ last.op = "set_error_method"
    /\ last.args[1] = MONTE_CARLO
    /\ last.pre[ERROR_METHOD] = MIN_MAX
    /\ last.pre[SIG_FIGS][SIG_FIG_MODE] = ERROR
    /\ get_error_method = MONTE_CARLO

\* set_error_method was handed a PrintStyle member in a configuration that
\* was not the default
C10_WitnessRejected ==
    /\ last.op = "set_error_method"
    /\ last.args[1] = LATEX
    /\ last.pre[ERROR_METHOD] = MIN_MAX

----------------------------------------------------------------------------
(* Claims about display, checked under SpecDisplay *)

Pinned(self) == self.cls = "Function" /\ self.is_error_method_specified = PyBool(TRUE)
Unpinned(self) == self.cls = "Function" /\ self.is_error_method_specified = PyBool(FALSE)

\* C3: printing a Function that has no pinned error method, after any
\* sequence of configuration calls made since its construction, displays
\* the pair stored under the global error method current at display time;
\* the lookup always selects one of its three stored pairs.  (The Function
\* keeps the global method of its construction in _error_method; the
\* statement is made of the Functions constructed under an ErrorMethod.)
C3_UnpinnedPrintsCurrentGlobal ==
    (last.op = "_print_value" /\ Unpinned(obj) /\ obj.error_method \in ErrorMethod) =>
        /\ last.exc = ""
        /\ \E m \in ErrorMethod :
              /\ m = get_error_method
              /\ last.value = obj.values[m.s]

\* C4: printing a Function constructed with a pinned error method m
\* displays the pair stored under m, whatever configuration calls happened
\* between construction and printing.
C4_PinnedPrintsPinned ==
    (last.op = "_print_value" /\ Pinned(obj)) =>
        /\ last.exc = ""
        /\ obj.error_method \in ErrorMethod
        /\ last.value = obj.values[obj.error_method.s]

\* a Function pinned to MIN_MAX is printed after the global error method
\* was changed; the pairs under the two methods differ
C4_Witness ==
    /\ last.op = "_print_value"
    /\ Pinned(obj)
    /\ obj.error_method = MIN_MAX
    /\ get_error_method = MONTE_CARLO
    /\ get_sig_fig_mode = VALUE
    /\ obj.values["min_max"] # obj.values["monte_carlo"]
    /\ last.value = obj.values["min_max"]

\* a Function pinned to MIN_MAX is printed after set_print_style wrote a
\* PrintStyle member into the error-method slot
C4_WitnessAfterSetPrintStyle ==
    /\ last.op = "_print_value"
    /\ Pinned(obj)
    /\ get_error_method = LATEX
    /\ last.value = obj.values["min_max"]

\* every pair a value stores has the value positive infinity, so that
\* whichever pair is displayed, the displayed value is positive infinity
StoresOnlyInf(self) ==
    /\ DOMAIN self.values # {}
    /\ \A k \in DOMAIN self.values : self.values[k][1] = PyInf

\* C6: printing a RecordedValue or a Function, pinned or not, whose
\* displayed value is positive infinity gives exactly the string "inf", in
\* every configuration the setters and reset can reach.
C6_InfPrintsInf ==
    (last.op = "_print_value" /\ StoresOnlyInf(obj)) => last.ret = InfStr

----------------------------------------------------------------------------
(* Claims about measured values, checked under SpecValue *)

\* the setter call that has just ended was handed an argument it accepts
AcceptedValueSet ==
    last.op = "value.setter" /\ isinstance(last.args[1], NUMBER_TYPES)
AcceptedErrorSet ==
    /\ last.op = "error.setter"
    /\ isinstance(last.args[1], NUMBER_TYPES)
    /\ Positive(last.args[1])

\* C5: after the value setter is called with a number, or the error setter
\* with a positive number, on a RepeatedlyMeasuredValue, the setter
\* completes, the instance is no longer a RepeatedlyMeasuredValue and its
\* raw data is no longer accessible.
C5_SetterDemotes ==
    (AcceptedValueSet \/ AcceptedErrorSet) =>
        /\ last.exc = ""
        /\ obj.cls # "RepeatedlyMeasuredValue"
        /\ ~ HasRawData(obj)

\* C7: in every state of a measured value, made by Measurement from one
\* number, two numbers or a sample array and changed by the value, error
\* and relative_error setters, the stored uncertainty is >= 0.
C7_UncertaintyNonNegative ==
    obj.cls \in MeasuredClasses => NonNegative(obj.values[RECORDED][2])

\* the three argument shapes Measurement accepts
AcceptedShape(args) ==
    \/ Len(args) = 1 /\ args[1].type \in ARRAY_TYPES
    \/ Len(args) = 1 /\ args[1].type \in NUMBER_TYPES
    \/ Len(args) = 2 /\ args[1].type \in NUMBER_TYPES /\ args[2].type \in NUMBER_TYPES

\* C8: for each of the three accepted argument shapes of Measurement, when
\* name and unit are passed as keywords, the returned instance's name is the
\* given name and its unit the given unit.
C8_KeywordsAttach ==
    (/\ last.op = "Measurement"
     /\ AcceptedShape(last.args)
     /\ DOMAIN last.kw = {"unit", "name"}) =>
        /\ last.exc = ""
        /\ obj.cls \in MeasuredClasses
        /\ obj.name = last.kw["name"]
        /\ obj.unit = last.kw["unit"]

\* a == b on numbers: an int and a float of one magnitude are equal, and
\* nan equals nothing
NumEq(a, b) ==
    /\ isinstance(a, NUMBER_TYPES) /\ isinstance(b, NUMBER_TYPES)
    /\ a.s = b.s /\ a.n = b.n /\ a.s # "nan"

\* Measurement is handed one number, or a number and an uncertainty >= 0
ValueAndUncertainty(args) ==
    \/ Len(args) = 1 /\ isinstance(args[1], NUMBER_TYPES)
    \/ /\ Len(args) = 2
       /\ isinstance(args[1], NUMBER_TYPES)
       /\ NonNegative(args[2])

\* C11: for every number v and uncertainty u >= 0, Measurement(v, u) returns
\* a MeasuredValue with .value == v and .error == u, and Measurement(v) one
\* with .value == v and .error == 0, whether or not the name and unit
\* keywords are supplied.
C11_FactoryStoresPair ==
    (last.op = "Measurement" /\ ValueAndUncertainty(last.args)) =>
        /\ last.exc = ""
        /\ obj.cls = "MeasuredValue"
        /\ NumEq(obj.values[RECORDED][1], last.args[1])
        /\ NumEq(obj.values[RECORDED][2],
                 IF Len(last.args) = 2 THEN last.args[2] ELSE PyInt(0))

\* C12: for every argument shape of Measurement other than one array, one
\* number or two numbers, the call reports an error and returns None, with
\* or without the name and unit keywords, and creates no instance.
C12_OtherShapesReturnNone ==
    (last.op = "Measurement" /\ ~ AcceptedShape(last.args)) =>
        /\ last.exc = ""
        /\ last.printed = "error"
        /\ last.ret = None
        /\ obj = NoObject

\* Measurement was handed a number and None, without keywords
C12_Witness ==
    /\ last.op = "Measurement"
    /\ last.args = <<PyInt(1), None>>
    /\ DOMAIN last.kw = {}
    /\ last.ret = None
    /\ last.printed = "error"

\* Measurement was handed three numbers, with both keywords
C12_WitnessThree ==
    /\ last.op = "Measurement"
    /\ Len(last.args) = 3
    /\ DOMAIN last.kw = {"unit", "name"}
    /\ last.ret = None

\* C13: value and uncertainty of a measured value are independently
\* mutable: an accepted value-setter call changes only the value and leaves
\* the uncertainty, the name and the unit unchanged, and an accepted
\* error-setter call changes only the uncertainty and leaves the value, the
\* name and the unit unchanged.
C13_SettersIndependent ==
    [][/\ AcceptedValueSet' =>
            /\ obj'.values[RECORDED] = <<last'.args[1], obj.values[RECORDED][2]>>
            /\ obj'.name = obj.name
            /\ obj'.unit = obj.unit
       /\ AcceptedErrorSet' =>
            /\ obj'.values[RECORDED] = <<obj.values[RECORDED][1], last'.args[1]>>
            /\ obj'.name = obj.name
            /\ obj'.unit = obj.unit]_vars

\* the value setter was accepted on a MeasuredValue that has a name, a unit
\* and an uncertainty that is not 0, and the value it stored is new
C13_Witness ==
    /\ AcceptedValueSet
    /\ obj.cls = "MeasuredValue"
    /\ obj.values[RECORDED] = <<PyInt(-1), PyFloat(1)>>
    /\ obj.name = PyStr(<<"x">>)
    /\ obj.unit = PyStr(<<"m">>)

\* the error setter was accepted on a MeasuredValue whose value is not 0
C13_WitnessError ==
    /\ AcceptedErrorSet
    /\ obj.cls = "MeasuredValue"
    /\ obj.values[RECORDED] = <<PyFloat(-1), PyInf>>
    /\ obj.name = PyStr(<<"y">>)

\* C14: in every state of a MeasuredValue or RepeatedlyMeasuredValue, after
\* construction and after any sequence of value, error, relative_error,
\* name and unit setter calls, accepted or rejected, its pairs have exactly
\* one key, "recorded".
C14_OneRecordedKey ==
    obj.cls \in MeasuredClasses => DOMAIN obj.values = {"recorded"}

\* a RepeatedlyMeasuredValue whose error setter has just rejected 0, after
\* its value had been set
C14_Witness ==
    /\ obj.cls = "RepeatedlyMeasuredValue"
    /\ last.op = "error.setter"
    /\ last.printed = "error"
    /\ obj.values[RECORDED][1] = PyInf
    /\ DOMAIN obj.values = {"recorded"}

PairSetters == {"value.setter", "error.setter", "relative_error.setter"}

\* a number <= 0
NotPositive(x) ==
    isinstance(x, NUMBER_TYPES) /\ (IF x.s = "" THEN x.n <= 0 ELSE x.s = "-inf")

\* the setter call that has just ended was handed an argument the setter
\* rejects: the value a non-number, the error or the relative error a
\* non-number or a number <= 0
RejectedSet ==
    \/ last.op = "value.setter" /\ ~ isinstance(last.args[1], NUMBER_TYPES)
    \/ /\ last.op \in {"error.setter", "relative_error.setter"}
       /\ (~ isinstance(last.args[1], NUMBER_TYPES) \/ NotPositive(last.args[1]))

\* C16: a rejected setter call on a measured value leaves the recorded pair
\* unchanged, and on a RepeatedlyMeasuredValue it neither demotes the
\* instance nor prints the demotion warning: its raw data stays accessible.
C16_RejectedSetChangesNothing ==
    [][RejectedSet' =>
          /\ obj' = obj
          /\ last'.printed = "error"
          /\ last'.exc = ""]_vars

\* the error setter rejected 0 on a RepeatedlyMeasuredValue whose
\* uncertainty is not 0, and the raw data is still there
C16_Witness ==
    /\ last.op = "error.setter"
    /\ last.args[1] = PyInt(0)
    /\ last.printed = "error"
    /\ obj.cls = "RepeatedlyMeasuredValue"
    /\ obj.values[RECORDED] = <<PyFloat(0), PyFloat(1)>>
    /\ HasRawData(obj)

\* C17: the setters preserve a non-negative uncertainty: for a measured
\* value whose uncertainty is >= 0 and whose value is any number, every call
\* of the value, error or relative_error setter, accepted or rejected,
\* leaves its uncertainty >= 0.
C17_SettersPreserveNonNegative ==
    [][(/\ last'.op \in PairSetters
        /\ isinstance(obj.values[RECORDED][1], NUMBER_TYPES)
        /\ NonNegative(obj.values[RECORDED][2]))
          => NonNegative(obj'.values[RECORDED][2])]_vars

----------------------------------------------------------------------------
(* Claims about the configuration store, continued (SpecConfig) *)

\* C15: configuration type invariant: in every state reachable from the
\* defaults by any sequence of set_error_method, set_print_style,
\* set_sig_figs_for_value, set_sig_figs_for_error and
\* reset_default_configuration calls with arbitrary arguments,
\* get_error_method() is one of the three ErrorMethod members and
\* get_print_style() is one of the three PrintStyle members.
C15_ConfigTypes ==
    /\ get_error_method \in ErrorMethod
    /\ get_print_style \in PrintStyle

\* the significant-figure settings before the call that has just ended
PreSigFigs == last.pre[SIG_FIGS]

\* C18 as stated: sig-fig mode AUTOMATIC implies sig-fig value 1; the mode
\* is AUTOMATIC only initially or after reset_default_configuration; and no
\* operation changes the sig-fig value without also switching the mode to
\* VALUE or ERROR.
C18_AsStated ==
    /\ get_sig_fig_mode = AUTOMATIC => get_sig_fig_value = 1
    /\ get_sig_fig_mode = AUTOMATIC =>
          \/ last.op \in {"import", "reset_default_configuration"}
          \/ PreSigFigs[SIG_FIG_MODE] = AUTOMATIC
    /\ get_sig_fig_value # PreSigFigs[SIG_FIG_VALUE] =>
          get_sig_fig_mode \in {VALUE, ERROR}

\* C18 amended: sig-fig mode AUTOMATIC implies sig-fig value 1; the mode is
\* AUTOMATIC only initially or after reset_default_configuration; and no
\* operation other than reset_default_configuration, which sets the value to
\* 1 together with the mode AUTOMATIC, changes the sig-fig value without
\* also switching the mode to VALUE or ERROR.
C18_AutomaticImpliesOne ==
    /\ get_sig_fig_mode = AUTOMATIC => get_sig_fig_value = 1
    /\ get_sig_fig_mode = AUTOMATIC =>
          \/ last.op \in {"import", "reset_default_configuration"}
          \/ PreSigFigs[SIG_FIG_MODE] = AUTOMATIC
    /\ (/\ get_sig_fig_value # PreSigFigs[SIG_FIG_VALUE]
        /\ last.op # "reset_default_configuration") =>
          get_sig_fig_mode \in {VALUE, ERROR}

\* reset_default_configuration has just brought the value from 2 back to 1
\* and the mode from ERROR back to AUTOMATIC
C18_Witness ==
    /\ last.op = "reset_default_configuration"
    /\ PreSigFigs[SIG_FIG_VALUE] = 2
    /\ PreSigFigs[SIG_FIG_MODE] = ERROR
    /\ get_sig_fig_mode = AUTOMATIC
    /\ get_sig_fig_value = 1

\* set_sig_figs_for_value has just changed the value, in the mode AUTOMATIC
C18_WitnessSetter ==
    /\ last.op = "set_sig_figs_for_value"
    /\ PreSigFigs[SIG_FIG_MODE] = AUTOMATIC
    /\ PreSigFigs[SIG_FIG_VALUE] = 1
    /\ get_sig_fig_value = 3
    /\ get_sig_fig_mode = VALUE

====
